---- MODULE Spec2Model ----
(***************************************************************************)
(* Model of the genealogy analyzer's format validation engine              *)
(* (src/analysis_modules/format_validator.py) and of the driver that runs  *)
(* it (src/main.py).                                                       *)
(*                                                                         *)
(* Text is modelled at character level: a Python str is a sequence of      *)
(* one-character strings, so that upper(), startswith(), strip(), split(), *)
(* the BET..AND regular expression and strptime are computed on the text   *)
(* as the code computes them.                                              *)
(***************************************************************************)
EXTENDS Integers, Sequences, FiniteSets, TLC

VARIABLES
    \* one call of _validate_date_value
    date_str, preferred_formats, date_pc, date_ret, match_groups, cleaned_date_str,
    \* one call of _validate_place_structure
    place_str, expected_structures, place_pc, place_ret,
    \* main: the two input files, the position in main, and its locals
    config_file, gedcom_file, pc, config, gedcom_data_reader, all_findings, crashed, report,
    \* validate_formats: its finding list, where each finding came from, and
    \* the number of individuals and of families already checked
    findings, origin, indi_idx, fam_idx,
    \* the calls main has made, in order
    invoked,
    \* one call of _create_finding
    finding_args, finding_pc, finding_ret

vars == <<date_str, preferred_formats, date_pc, date_ret, match_groups, cleaned_date_str,
          place_str, expected_structures, place_pc, place_ret,
          config_file, gedcom_file, pc, config, gedcom_data_reader, all_findings, crashed,
          report, findings, origin, indi_idx, fam_idx, invoked,
          finding_args, finding_pc, finding_ret>>

main_vars == <<config_file, gedcom_file, pc, config, gedcom_data_reader, all_findings,
               crashed, report, findings, origin, indi_idx, fam_idx, invoked>>

date_vars == <<date_str, preferred_formats, date_pc, date_ret, match_groups, cleaned_date_str>>
place_vars == <<place_str, expected_structures, place_pc, place_ret>>
finding_vars == <<finding_args, finding_pc, finding_ret>>

----------------------------------------------------------------------------
(* Python str primitives on character sequences *)

LowerCase == <<"a","b","c","d","e","f","g","h","i","j","k","l","m",
               "n","o","p","q","r","s","t","u","v","w","x","y","z">>
UpperCase == <<"A","B","C","D","E","F","G","H","I","J","K","L","M",
               "N","O","P","Q","R","S","T","U","V","W","X","Y","Z">>
Digits == <<"0","1","2","3","4","5","6","7","8","9">>

LowerSet == {LowerCase[k] : k \in 1..Len(LowerCase)}
UpperOf == [c \in LowerSet |-> UpperCase[CHOOSE k \in 1..Len(LowerCase) : LowerCase[k] = c]]

\* str.upper() on one character
UpperChar(c) == IF c \in LowerSet THEN UpperOf[c] ELSE c

\* str.upper()
Upper(s) == [k \in 1..Len(s) |-> UpperChar(s[k])]

\* the whitespace str.strip() and \s know, as far as the model's texts hold it
IsSpace(c) == c \in {" ", "\t", "\n"}
DigitSet == {Digits[k] : k \in 1..Len(Digits)}
DigitOf == [c \in DigitSet |-> (CHOOSE k \in 1..Len(Digits) : Digits[k] = c) - 1]
IsDigit(c) == c \in DigitSet
DigitVal(c) == DigitOf[c]

\* s[i:j] with 1-based inclusive bounds; empty when j < i
Slice(s, i, j) == [k \in 1..(IF j >= i THEN j - i + 1 ELSE 0) |-> s[i + k - 1]]

\* s[at:].startswith(p), at 1-based
StartsWithAt(s, p, at) ==
    /\ at + Len(p) - 1 <= Len(s)
    /\ \A k \in 1..Len(p) : s[at + k - 1] = p[k]

\* str.startswith
StartsWith(s, p) == StartsWithAt(s, p, 1)

\* the 1-based positions at which p occurs in s
Occurrences(s, p) == {at \in 1..Len(s) : StartsWithAt(s, p, at)}

\* p in s
Contains(s, p) == Len(p) = 0 \/ Occurrences(s, p) # {}

\* str.strip()
Strip(s) ==
    LET nonsp == {k \in 1..Len(s) : ~IsSpace(s[k])} IN
    IF nonsp = {} THEN <<>>
    ELSE Slice(s, CHOOSE k \in nonsp : \A l \in nonsp : k <= l,
                  CHOOSE k \in nonsp : \A l \in nonsp : k >= l)

\* s.count(c) for a one-character c
CountChar(s, c) == Cardinality({k \in 1..Len(s) : s[k] = c})

\* s.split(',') without its empty segments
RECURSIVE Split_nonempty(_)
Split_nonempty(s) ==
    LET commas == {k \in 1..Len(s) : s[k] = ","} IN
    IF commas = {} THEN (IF Len(s) = 0 THEN <<>> ELSE << s >>)
    ELSE LET k == CHOOSE x \in commas : \A y \in commas : x <= y IN
         (IF k = 1 THEN <<>> ELSE << Slice(s, 1, k - 1) >>)
         \o Split_nonempty(Slice(s, k + 1, Len(s)))

\* s.split(','): the segments between the commas, empty ones included
RECURSIVE Split(_)
Split(s) ==
    LET commas == {k \in 1..Len(s) : s[k] = ","} IN
    IF commas = {} THEN << s >>
    ELSE LET k == CHOOSE x \in commas : \A y \in commas : x <= y IN
         << Slice(s, 1, k - 1) >> \o Split(Slice(s, k + 1, Len(s)))

----------------------------------------------------------------------------
(* datetime.datetime.strptime(data_string, format), for the directives     *)
(* %Y %m %d %b and %%.  The format is compiled to a regular expression     *)
(* (a run of whitespace becomes \s+, a literal matches case-insensitively),*)
(* the expression is matched at the start of the text with Python's        *)
(* priority order, the whole text must be consumed, and the date must      *)
(* exist.                                                                  *)

MonthAbbr == << <<"J","A","N">>, <<"F","E","B">>, <<"M","A","R">>, <<"A","P","R">>,
                <<"M","A","Y">>, <<"J","U","N">>, <<"J","U","L">>, <<"A","U","G">>,
                <<"S","E","P">>, <<"O","C","T">>, <<"N","O","V">>, <<"D","E","C">> >>

KnownDirectives == {"Y", "m", "d", "b"}

\* _TimeRE.pattern: the elements of the compiled expression, left to right
RECURSIVE FormatElems(_, _)
FormatElems(fmt, i) ==
    IF i > Len(fmt) THEN <<>>
    ELSE IF fmt[i] = "%" THEN
        IF i = Len(fmt) THEN << [kind |-> "bad", c |-> "%"] >>
        ELSE IF fmt[i + 1] = "%" THEN
            << [kind |-> "lit", c |-> "%"] >> \o FormatElems(fmt, i + 2)
        ELSE IF fmt[i + 1] \in KnownDirectives THEN
            << [kind |-> "dir", c |-> fmt[i + 1]] >> \o FormatElems(fmt, i + 2)
        ELSE << [kind |-> "bad", c |-> fmt[i + 1]] >>
    ELSE IF IsSpace(fmt[i]) THEN
        IF i > 1 /\ IsSpace(fmt[i - 1]) THEN FormatElems(fmt, i + 1)
        ELSE << [kind |-> "ws", c |-> " "] >> \o FormatElems(fmt, i + 1)
    ELSE << [kind |-> "lit", c |-> fmt[i]] >> \o FormatElems(fmt, i + 1)

\* what compiling the format does: a stray % or an unknown directive is turned
\* into ValueError by _strptime; a directive used twice makes re.compile raise
\* re.error (redefinition of group name), which _strptime does not catch
CompileStatus(elems) ==
    IF \E k \in 1..Len(elems) : elems[k].kind = "bad" THEN "ValueError"
    ELSE IF \E k, l \in 1..Len(elems) :
               k < l /\ elems[k].kind = "dir" /\ elems[l].kind = "dir" /\ elems[k].c = elems[l].c
         THEN "re.error"
         ELSE "ok"

DigitAt(txt, j) == j <= Len(txt) /\ IsDigit(txt[j])
DigitIn(txt, j, lo, hi) == DigitAt(txt, j) /\ DigitVal(txt[j]) >= lo /\ DigitVal(txt[j]) <= hi
Num2(txt, j) == 10 * DigitVal(txt[j]) + DigitVal(txt[j + 1])

\* the alternatives of one directive group that match at position j, in the
\* order the regular expression tries them, each as <<length, value>>
Cands(d, txt, j) ==
    IF d = "Y" THEN
        IF \A k \in 0..3 : DigitAt(txt, j + k)
        THEN << <<4, 1000 * DigitVal(txt[j]) + 100 * DigitVal(txt[j + 1])
                     + 10 * DigitVal(txt[j + 2]) + DigitVal(txt[j + 3])>> >>
        ELSE <<>>
    ELSE IF d = "m" THEN
        (IF DigitIn(txt, j, 1, 1) /\ DigitIn(txt, j + 1, 0, 2) THEN << <<2, Num2(txt, j)>> >> ELSE <<>>)
        \o (IF DigitIn(txt, j, 0, 0) /\ DigitIn(txt, j + 1, 1, 9) THEN << <<2, Num2(txt, j)>> >> ELSE <<>>)
        \o (IF DigitIn(txt, j, 1, 9) THEN << <<1, DigitVal(txt[j])>> >> ELSE <<>>)
    ELSE IF d = "d" THEN
        (IF DigitIn(txt, j, 3, 3) /\ DigitIn(txt, j + 1, 0, 1) THEN << <<2, Num2(txt, j)>> >> ELSE <<>>)
        \o (IF DigitIn(txt, j, 1, 2) /\ DigitAt(txt, j + 1) THEN << <<2, Num2(txt, j)>> >> ELSE <<>>)
        \o (IF DigitIn(txt, j, 0, 0) /\ DigitIn(txt, j + 1, 1, 9) THEN << <<2, Num2(txt, j)>> >> ELSE <<>>)
        \o (IF DigitIn(txt, j, 1, 9) THEN << <<1, DigitVal(txt[j])>> >> ELSE <<>>)
        \o (IF j <= Len(txt) /\ IsSpace(txt[j]) /\ DigitIn(txt, j + 1, 1, 9)
            THEN << <<2, DigitVal(txt[j + 1])>> >> ELSE <<>>)
    ELSE \* "b"
        LET ms == {k \in 1..Len(MonthAbbr) :
                      /\ j + 2 <= Len(txt)
                      /\ \A l \in 0..2 : UpperChar(txt[j + l]) = MonthAbbr[k][l + 1]} IN
        IF ms = {} THEN <<>> ELSE << <<3, CHOOSE k \in ms : TRUE>> >>

NoMatch == [ok |-> FALSE, pos |-> 0, Y |-> -1, m |-> -1, d |-> -1]

SetField(acc, d, v) ==
    IF d = "Y" THEN [acc EXCEPT !.Y = v]
    ELSE IF d = "d" THEN [acc EXCEPT !.d = v]
    ELSE [acc EXCEPT !.m = v]

\* the number of whitespace characters of txt from position j on
RECURSIVE SpaceRun(_, _)
SpaceRun(txt, j) ==
    IF j <= Len(txt) /\ IsSpace(txt[j]) THEN 1 + SpaceRun(txt, j + 1) ELSE 0

\* format_regex.match(data_string): the first match in priority order of the
\* elements e.. at position j (backtracking), or NoMatch
\* the first alternative that matches
OrElse(r, alt) == IF r.ok THEN r ELSE alt

RECURSIVE ReMatch(_, _, _, _, _), TryCands(_, _, _, _, _, _, _), TrySpaces(_, _, _, _, _, _)
ReMatch(elems, e, txt, j, acc) ==
    IF e > Len(elems) THEN [acc EXCEPT !.ok = TRUE, !.pos = j]
    ELSE IF elems[e].kind = "lit" THEN
        IF j <= Len(txt) /\ UpperChar(txt[j]) = UpperChar(elems[e].c)
        THEN ReMatch(elems, e + 1, txt, j + 1, acc)
        ELSE NoMatch
    ELSE IF elems[e].kind = "ws" THEN
        TrySpaces(elems, e, txt, j, acc, SpaceRun(txt, j))
    ELSE TryCands(elems, e, txt, j, acc, Cands(elems[e].c, txt, j), 1)

TryCands(elems, e, txt, j, acc, cands, k) ==
    IF k > Len(cands) THEN NoMatch
    ELSE OrElse(ReMatch(elems, e + 1, txt, j + cands[k][1],
                        SetField(acc, elems[e].c, cands[k][2])),
                TryCands(elems, e, txt, j, acc, cands, k + 1))

TrySpaces(elems, e, txt, j, acc, n) ==
    IF n < 1 THEN NoMatch
    ELSE OrElse(ReMatch(elems, e + 1, txt, j + n, acc),
                TrySpaces(elems, e, txt, j, acc, n - 1))

IsLeap(y) == y % 4 = 0 /\ (y % 100 # 0 \/ y % 400 = 0)

DaysIn(m, y) ==
    IF m = 2 THEN (IF IsLeap(y) THEN 29 ELSE 28)
    ELSE IF m \in {4, 6, 9, 11} THEN 30 ELSE 31

\* the date the matched fields denote exists (a missing field has strptime's
\* default: 1900, January, the 1st)
DateExists(year, month, day) == year >= 1 /\ day <= DaysIn(month, year)

\* the outcome of strptime once the expression has been matched against the text
Converted(r, txt) ==
    IF ~r.ok THEN "ValueError"                        \* does not match format
    ELSE IF r.pos # Len(txt) + 1 THEN "ValueError"    \* unconverted data remains
    ELSE IF ~DateExists(IF r.Y = -1 THEN 1900 ELSE r.Y,
                        IF r.m = -1 THEN 1 ELSE r.m,
                        IF r.d = -1 THEN 1 ELSE r.d) THEN "ValueError"
    ELSE "ok"

Compiled(elems, st, txt) ==
    IF st # "ok" THEN st ELSE Converted(ReMatch(elems, 1, txt, 1, NoMatch), txt)

StrptimeElems(elems, txt) == Compiled(elems, CompileStatus(elems), txt)

\* strptime: "ok", or the exception it raises
Strptime(txt, fmt) == StrptimeElems(FormatElems(fmt, 1), txt)

----------------------------------------------------------------------------
(* Date validation: the outcome of a call is "True", "False", or "raise"   *)
(* when an exception leaves the function.                                  *)

\* _is_date_parsable: the formats are tried in order; ValueError moves on to
\* the next format, any other exception propagates
\* lines 29-33: one format tried; ValueError moves on to the others
Tried(r, others) ==
    IF r = "ok" THEN "True"
    ELSE IF r = "ValueError" THEN others
    ELSE "raise"

RECURSIVE TryFormats(_, _, _)
TryFormats(txt, fmts, k) ==
    IF k > Len(fmts) THEN "False"
    ELSE Tried(Strptime(txt, fmts[k]), TryFormats(txt, fmts, k + 1))

is_date_parsable(single_date_str, fmts) ==
    IF Len(single_date_str) = 0 THEN "False"
    ELSE TryFormats(Strip(single_date_str), fmts, 1)

\* the keywords of lines 50, 53 and 70
BET_ == <<"B","E","T"," ">>
_AND_ == <<" ","A","N","D"," ">>
ABT_ == <<"A","B","T"," ">>
CAL_ == <<"C","A","L"," ">>
EST_ == <<"E","S","T"," ">>
INT_ == <<"I","N","T"," ">>
BEF_ == <<"B","E","F"," ">>
AFT_ == <<"A","F","T"," ">>
FROM_ == <<"F","R","O","M"," ">>
TO_ == <<"T","O"," ">>

\* line 50: the text is treated as a range expression
is_range(ds) ==
    /\ StartsWith(Upper(ds), BET_)
    /\ Contains(Upper(ds), _AND_)

\* a non-greedy first group: the split at the first " AND "
re_match_groups_first(ds) ==
    LET up == Upper(ds)
        ks == {k \in Occurrences(up, _AND_) : k >= Len(BET_) + 1}
        k == CHOOSE x \in ks : \A y \in ks : x <= y
    IN  IF ~StartsWith(up, BET_) \/ ks = {} THEN <<>>
        ELSE << Strip(Slice(ds, Len(BET_) + 1, k - 1)),
                Strip(Slice(ds, k + Len(_AND_), Len(ds))) >>

\* lines 53-56: re.match(r"BET (.*) AND (.*)", ds, re.IGNORECASE) and the
\* two stripped groups; <<>> when the expression does not match.  The first
\* group is greedy, so it ends at the last " AND " it can reach; "." does not
\* match a newline.
re_match_groups(ds) ==
    LET up == Upper(ds)
        ks == {k \in Occurrences(up, _AND_) :
                  /\ k >= Len(BET_) + 1
                  /\ \A l \in (Len(BET_) + 1)..(k - 1) : ds[l] # "\n"}
        k == CHOOSE x \in ks : \A y \in ks : x >= y
        nl == {l \in (k + Len(_AND_))..Len(ds) : ds[l] = "\n"}
        stop == IF nl = {} THEN Len(ds)
                ELSE (CHOOSE x \in nl : \A y \in nl : x <= y) - 1
    IN  IF ~StartsWith(up, BET_) \/ ks = {} THEN <<>>
        ELSE << Strip(Slice(ds, Len(BET_) + 1, k - 1)),
                Strip(Slice(ds, k + Len(_AND_), stop)) >>

\* line 70
prefixes_to_strip == << ABT_, CAL_, EST_, INT_, BEF_, AFT_, FROM_, TO_ >>

\* every leading prefix removed, not only the first
RECURSIVE cleaned_repeatedly(_)
cleaned_repeatedly(ds) ==
    LET hits == {k \in 1..Len(prefixes_to_strip) :
                    StartsWith(Upper(ds), prefixes_to_strip[k])} IN
    IF hits = {} THEN ds
    ELSE LET k == CHOOSE x \in hits : \A y \in hits : x <= y IN
         cleaned_repeatedly(Slice(ds, Len(prefixes_to_strip[k]) + 1, Len(ds)))

\* lines 72-77: the text with the first matching prefix removed
cleaned(ds) ==
    LET hits == {k \in 1..Len(prefixes_to_strip) :
                    StartsWith(Upper(ds), prefixes_to_strip[k])} IN
    IF hits = {} THEN ds
    ELSE LET k == CHOOSE x \in hits : \A y \in hits : x <= y IN
         Slice(ds, Len(prefixes_to_strip[k]) + 1, Len(ds))

\* the sides of a range parsed after their qualifier prefix is removed
range_valid_sides_cleaned(groups, fmts) ==
    IF groups = <<>> THEN "False"
    ELSE IF is_date_parsable(cleaned(groups[1]), fmts) # "True" THEN "False"
    ELSE IF is_date_parsable(cleaned(groups[2]), fmts) # "True" THEN "False"
    ELSE "True"

\* lines 58-66: both sides parsable; an exception raised in the try block
\* is caught and gives False
range_valid(groups, fmts) ==
    IF groups = <<>> THEN "False"
    ELSE IF is_date_parsable(groups[1], fmts) # "True" THEN "False"
    ELSE IF is_date_parsable(groups[2], fmts) # "True" THEN "False"
    ELSE "True"

\* _validate_date_value
validate_date_value(ds, fmts) ==
    IF Len(ds) = 0 THEN "True"
    ELSE IF is_range(ds) THEN range_valid(re_match_groups(ds), fmts)
    ELSE is_date_parsable(cleaned(ds), fmts)

----------------------------------------------------------------------------
(* Place validation *)

\* _validate_place_structure
validate_place_structure(ps, structs) ==
    IF Len(ps) = 0 THEN "True"
    ELSE LET num_parts == Len(Split(ps)) IN
         IF \E k \in 1..Len(structs) : num_parts = Len(Split(structs[k])) THEN "True"
         ELSE IF num_parts = 1 /\ \E k \in 1..Len(structs) : Len(Split(structs[k])) = 1
              THEN "True"
              ELSE "False"

----------------------------------------------------------------------------
(* Findings *)

\* an optional argument: None is <<>>, a supplied value v is << v >>
None == <<>>
Some(v) == << v >>

\* Python truthiness of an optional text argument (None and "" are falsy)
Truthy(opt) == opt # None /\ opt[1] # <<>>

\* the finding holding rule_violated and suggestion whenever an argument was
\* passed for them
create_finding_if_supplied(issue_type, record_type, element_xref_id, element_tag_path, problematic_value, message, rule_violated, suggestion) ==
    [issue_type |-> issue_type,
     record_type |-> record_type,
     element_xref_id |-> element_xref_id,
     element_tag_path |-> element_tag_path,
     problematic_value |-> problematic_value,
     message |-> message]
    @@ (IF rule_violated # None THEN "rule_violated" :> rule_violated[1]
        ELSE [x \in {} |-> x])
    @@ (IF suggestion # None THEN "suggestion" :> suggestion[1]
        ELSE [x \in {} |-> x])

\* _create_finding: the six mandatory keys, and rule_violated and suggestion
\* only when the argument is truthy
create_finding(issue_type, record_type, element_xref_id, element_tag_path, problematic_value, message, rule_violated, suggestion) ==
    [issue_type |-> issue_type,
     record_type |-> record_type,
     element_xref_id |-> element_xref_id,
     element_tag_path |-> element_tag_path,
     problematic_value |-> problematic_value,
     message |-> message]
    @@ (IF Truthy(rule_violated) THEN "rule_violated" :> rule_violated[1]
        ELSE [x \in {} |-> x])
    @@ (IF Truthy(suggestion) THEN "suggestion" :> suggestion[1]
        ELSE [x \in {} |-> x])

----------------------------------------------------------------------------
(* Configuration: a dict is the set of its keys and their values *)

\* dict.get(key, default)
Get(d, key, default) == IF key \in d.keys THEN d.vals[key] ELSE default

\* line 117
cfg_preferred_date_formats(cfg) == Get(cfg, "preferred_date_formats", <<>>)
\* line 118
cfg_expected_place_structures(cfg) == Get(cfg, "expected_place_format_structures", <<>>)
\* line 119
cfg_enforce_surname_slashes(cfg) ==
    Get(Get(cfg, "name_validation_rules", [keys |-> {}, vals |-> <<>>]),
        "enforce_surname_slashes", TRUE)

----------------------------------------------------------------------------
(* validate_formats: the checks of one record *)

\* lines 148 and 176
event_tags_to_check == <<"BIRT", "DEAT", "CHR", "ADOP", "BURI", "EVEN">>
family_event_tags_to_check == <<"MARR", "DIV", "ANUL", "ENGA", "EVEN">>

\* lines 122 and 173: the identifier, or the placeholder when it is missing
record_id(xref, placeholder) == IF xref # "" THEN xref ELSE placeholder

\* lines 123, 151 and the f-strings of the findings: RECORDTYPE:xref/EVENTTAG/FIELD
tag_path(record_kind, id, parts) == <<record_kind, ":", id>> \o parts

\* a finding together with the place of the tree it came from
Item(f, kind, rec, ev, field) ==
    [f |-> f, o |-> [kind |-> kind, rec |-> rec, ev |-> ev, field |-> field]]

\* lines 131-133, 137-140 and 143-146: the finding of the name check
name_finding(indi, rec, message, suggestion) ==
    << Item(create_finding("Format Error", "Individual", record_id(indi.xref, "UNKNOWN_INDI"),
                           tag_path("INDI", record_id(indi.xref, "UNKNOWN_INDI"), <<"/", "NAME">>),
                           indi.name, message, None, suggestion),
            "INDI", rec, 0, "NAME") >>

\* line 130: the stripped value is empty, '/' or '//'
name_is_empty(name_value_stripped) ==
    name_value_stripped = <<>> \/ name_value_stripped = <<"/">>
        \/ name_value_stripped = <<"/", "/">>

\* the name check reporting a slash-free name whatever the enforcement setting
name_items_always_enforced(indi, rec, enforce) ==
    IF ~indi.has_name THEN <<>>
    ELSE IF name_is_empty(Strip(indi.name))
    THEN name_finding(indi, rec, <<"Name is missing or appears to be empty.">>, None)
    ELSE IF indi.surname = <<>> /\ CountChar(indi.name, "/") = 0
    THEN name_finding(indi, rec,
            <<"Name does not appear to use standard GEDCOM surname slashes (e.g., First /Surname/).">>,
            Some(<<"Ensure surname is enclosed in slashes like /SURNAME/.">>))
    ELSE IF enforce /\ indi.surname = <<>> /\ CountChar(indi.name, "/") >= 2
    THEN name_finding(indi, rec,
            <<"Name contains slashes, but surname part might be empty or malformed (e.g., 'Name / /').">>,
            Some(<<"Check surname formatting between slashes.">>))
    ELSE <<>>

\* the name check reporting a malformed surname from one slash on
name_items_one_slash(indi, rec, enforce) ==
    IF ~indi.has_name THEN <<>>
    ELSE IF name_is_empty(Strip(indi.name))
    THEN name_finding(indi, rec, <<"Name is missing or appears to be empty.">>, None)
    ELSE IF ~enforce THEN <<>>
    ELSE IF indi.surname = <<>> /\ CountChar(indi.name, "/") = 0
    THEN name_finding(indi, rec,
            <<"Name does not appear to use standard GEDCOM surname slashes (e.g., First /Surname/).">>,
            Some(<<"Ensure surname is enclosed in slashes like /SURNAME/.">>))
    ELSE IF indi.surname = <<>> /\ CountChar(indi.name, "/") >= 1
    THEN name_finding(indi, rec,
            <<"Name contains slashes, but surname part might be empty or malformed (e.g., 'Name / /').">>,
            Some(<<"Check surname formatting between slashes.">>))
    ELSE <<>>

\* lines 125-146: the name check of individual number rec
name_items(indi, rec, enforce) ==
    IF ~indi.has_name THEN <<>>
    ELSE IF name_is_empty(Strip(indi.name))
    THEN name_finding(indi, rec, <<"Name is missing or appears to be empty.">>, None)
    ELSE IF enforce THEN
        IF indi.surname = <<>> /\ CountChar(indi.name, "/") = 0
        THEN name_finding(indi, rec,
                <<"Name does not appear to use standard GEDCOM surname slashes (e.g., First /Surname/).">>,
                Some(<<"Ensure surname is enclosed in slashes like /SURNAME/.">>))
        ELSE IF CountChar(indi.name, "/") > 0 /\ indi.surname = <<>>
                /\ CountChar(indi.name, "/") >= 2
        THEN name_finding(indi, rec,
                <<"Name contains slashes, but surname part might be empty or malformed (e.g., 'Name / /').">>,
                Some(<<"Check surname formatting between slashes.">>))
        ELSE <<>>
    ELSE <<>>

\* the outcome of a sequence of checks: the findings appended, and whether an
\* exception ended it
Outcome(items, raised) == [items |-> items, raised |-> raised]

\* lines 157-160 and 185-188: no finding for a valid date, a finding for an
\* invalid one; an exception raised by the validator leaves validate_formats
date_outcome(kind, label, id, rec, ev, tag, date_val, fmts, r) ==
    IF r = "raise" THEN Outcome(<<>>, TRUE)
    ELSE IF r = "True" THEN Outcome(<<>>, FALSE)
    ELSE Outcome(<< Item(create_finding("Format Error", label, id,
                            tag_path(kind, id, <<"/", tag, "/", "DATE">>), date_val,
                            <<"Date format for ", tag, " ('", date_val, "') invalid.">>,
                            Some(<<"preferred_date_formats">>),
                            Some(<<"Supported formats: ", fmts,
                                   IF kind = "INDI"
                                   THEN " or GEDCOM date phrases (ABT, BEF, BET...AND...)."
                                   ELSE " or GEDCOM date phrases.">>)),
                         kind, rec, ev, "DATE") >>, FALSE)

\* lines 155-156 and 183-184: the stripped value, checked when it is not empty
date_val_check(kind, label, id, rec, ev, tag, date_val, fmts) ==
    IF date_val = <<>> THEN Outcome(<<>>, FALSE)
    ELSE date_outcome(kind, label, id, rec, ev, tag, date_val, fmts,
                      validate_date_value(date_val, fmts))

\* the DATE child checked as it stands, without trimming it
date_check_unstripped(kind, label, id, rec, ev, event, fmts) ==
    IF ~event.has_date \/ event.date = <<>> THEN Outcome(<<>>, FALSE)
    ELSE date_val_check(kind, label, id, rec, ev, event.tag, event.date, fmts)

\* lines 153-160 and 181-188: the DATE child of one event
date_check(kind, label, id, rec, ev, event, fmts) ==
    IF ~event.has_date \/ event.date = <<>> THEN Outcome(<<>>, FALSE)
    ELSE date_val_check(kind, label, id, rec, ev, event.tag, Strip(event.date), fmts)

\* lines 165-170 and 193-198: no finding for a valid place, a finding for an
\* invalid one; its suggestion reads expected_place_structures[0], which raises
\* IndexError on an empty list
place_outcome(kind, label, id, rec, ev, tag, place_val, structs, r) ==
    IF r = "True" THEN Outcome(<<>>, FALSE)
    ELSE IF Len(structs) = 0 THEN Outcome(<<>>, TRUE)
    ELSE Outcome(<< Item(create_finding("Format Error", label, id,
                            tag_path(kind, id, <<"/", tag, "/", "PLAC">>), place_val,
                            <<"Place format for ", tag, " ('", place_val,
                              IF kind = "INDI"
                              THEN "') does not match expected structures based on comma count."
                              ELSE "') does not match structures based on comma count.">>,
                            Some(<<"expected_place_format_structures">>),
                            Some(<<"Expected parts (by comma count): ",
                                   Len(Split(structs[1])), " for '", structs[1], "' etc.">>)),
                         kind, rec, ev, "PLAC") >>, FALSE)

\* lines 164-165 and 192-193: the stripped value, checked when it is not empty
place_val_check(kind, label, id, rec, ev, tag, place_val, structs) ==
    IF place_val = <<>> THEN Outcome(<<>>, FALSE)
    ELSE place_outcome(kind, label, id, rec, ev, tag, place_val, structs,
                       validate_place_structure(place_val, structs))

\* lines 162-170 and 190-198: the PLAC child of one event
place_check(kind, label, id, rec, ev, event, structs) ==
    IF ~event.has_place \/ event.place = <<>> THEN Outcome(<<>>, FALSE)
    ELSE place_val_check(kind, label, id, rec, ev, event.tag, Strip(event.place), structs)

\* two checks in sequence: the second runs unless the first raised
Then(a, b) == IF a.raised THEN a ELSE Outcome(a.items \o b.items, b.raised)

\* one event checked place first
event_check_place_first(kind, label, id, rec, ev, event, fmts, structs) ==
    Then(place_check(kind, label, id, rec, ev, event, structs),
         date_check(kind, label, id, rec, ev, event, fmts))

\* lines 153-170 and 181-198: one event: its date, then its place
event_check(kind, label, id, rec, ev, event, fmts, structs) ==
    Then(date_check(kind, label, id, rec, ev, event, fmts),
         place_check(kind, label, id, rec, ev, event, structs))

\* children_tags(tag): the positions of the children with that tag, in
\* document order
children_tags(events, tag) ==
    LET RECURSIVE from(_)
        from(k) == IF k > Len(events) THEN <<>>
                   ELSE (IF events[k].tag = tag THEN <<k>> ELSE <<>>) \o from(k + 1)
    IN  from(1)

\* lines 149-150 and 177-178: the events in the order the two loops visit them
RECURSIVE visit_order(_, _, _)
visit_order(events, tags, t) ==
    IF t > Len(tags) THEN <<>>
    ELSE children_tags(events, tags[t]) \o visit_order(events, tags, t + 1)

\* the checks of the events at positions order[n..], stopping at an exception
RECURSIVE events_check(_, _, _, _, _, _, _, _, _)
events_check(kind, label, id, rec, events, order, n, fmts, structs) ==
    IF n > Len(order) THEN Outcome(<<>>, FALSE)
    ELSE Then(event_check(kind, label, id, rec, order[n], events[order[n]], fmts, structs),
              events_check(kind, label, id, rec, events, order, n + 1, fmts, structs))

\* lines 121-170: one iteration of the loop over the individuals
indi_check(indi, rec, cfg) ==
    Then(Outcome(name_items(indi, rec, cfg_enforce_surname_slashes(cfg)), FALSE),
         events_check("INDI", "Event (Individual)", record_id(indi.xref, "UNKNOWN_INDI"),
                      rec, indi.events,
                      visit_order(indi.events, event_tags_to_check, 1), 1,
                      cfg_preferred_date_formats(cfg),
                      cfg_expected_place_structures(cfg)))

\* lines 172-198: one iteration of the loop over the families
fam_check(fam, rec, cfg) ==
    events_check("FAM", "Event (Family)", record_id(fam.xref, "UNKNOWN_FAM"),
                 rec, fam.events,
                 visit_order(fam.events, family_event_tags_to_check, 1), 1,
                 cfg_preferred_date_formats(cfg),
                 cfg_expected_place_structures(cfg))

----------------------------------------------------------------------------
(* main: load the configuration, parse the file, validate, report *)

EmptyDict == [keys |-> {}, vals |-> <<>>]
NoConfig == [is_none |-> TRUE, keys |-> {}, vals |-> <<>>]
NoReader == [is_none |-> TRUE, indis |-> <<>>, fams |-> <<>>]
NoReport == [written |-> FALSE, no_issues |-> FALSE, total |-> 0, blocks |-> <<>>]

\* main is not running: the state of the calls of the two pure validators
MainIdle ==
    /\ config_file = [status |-> "missing", content |-> EmptyDict]
    /\ gedcom_file = [status |-> "missing", indis |-> <<>>, fams |-> <<>>]
    /\ pc = "idle"
    /\ config = NoConfig
    /\ gedcom_data_reader = NoReader
    /\ all_findings = <<>>
    /\ crashed = FALSE
    /\ report = NoReport
    /\ findings = <<>>
    /\ origin = <<>>
    /\ indi_idx = 0
    /\ fam_idx = 0
    /\ invoked = <<>>

\* _create_finding is not being called
FindingIdle ==
    /\ finding_args = <<>>
    /\ finding_pc = "idle"
    /\ finding_ret = <<>>

\* load_config: the parsed dict, or None when the file is missing or is not JSON
load_config(file) ==
    IF file.status = "ok"
    THEN [is_none |-> FALSE, keys |-> file.content.keys, vals |-> file.content.vals]
    ELSE NoConfig

\* parse_gedcom: the reader, or None when the file cannot be read
parse_gedcom(file) ==
    IF file.status = "ok"
    THEN [is_none |-> FALSE, indis |-> file.indis, fams |-> file.fams]
    ELSE NoReader

\* the issue types of the findings in the order of their first appearance
RECURSIVE issue_types(_, _)
issue_types(fs, k) ==
    IF k > Len(fs) THEN <<>>
    ELSE LET rest == issue_types(fs, k + 1)
             t == IF "issue_type" \in DOMAIN fs[k] THEN fs[k].issue_type
                  ELSE "Unknown Issue Type"
         IN  <<t>> \o SelectSeq(rest, LAMBDA x : x # t)

\* the report with every finding put at the head of its block
generate_report_prepending(fs) ==
    IF fs = <<>> THEN [written |-> TRUE, no_issues |-> TRUE, total |-> 0, blocks |-> <<>>]
    ELSE LET types == issue_types(fs, 1) IN
         [written |-> TRUE, no_issues |-> FALSE, total |-> Len(fs),
          blocks |-> [b \in 1..Len(types) |->
                        [issue_type |-> types[b],
                         findings |->
                             LET kept == SelectSeq(fs, LAMBDA f :
                                     (IF "issue_type" \in DOMAIN f THEN f.issue_type
                                      ELSE "Unknown Issue Type") = types[b])
                             IN  [k \in 1..Len(kept) |-> kept[Len(kept) + 1 - k]]]]]

\* generate_report lines 22-46: nothing to report, or the total and one block per
\* issue type holding its findings in their order
generate_report(fs) ==
    IF fs = <<>> THEN [written |-> TRUE, no_issues |-> TRUE, total |-> 0, blocks |-> <<>>]
    ELSE LET types == issue_types(fs, 1) IN
         [written |-> TRUE, no_issues |-> FALSE, total |-> Len(fs),
          blocks |-> [b \in 1..Len(types) |->
                        [issue_type |-> types[b],
                         findings |-> SelectSeq(fs, LAMBDA f :
                             (IF "issue_type" \in DOMAIN f THEN f.issue_type
                              ELSE "Unknown Issue Type") = types[b])]]]

\* where validate_formats stands once n individuals and m families are checked
loop_pc(reader, n, m) ==
    IF n < Len(reader.indis) THEN "indi_loop"
    ELSE IF m < Len(reader.fams) THEN "fam_loop"
    ELSE "return"

\* main lines 39-44
LoadConfig ==
    /\ pc = "load_config"
    /\ config' = load_config(config_file)
    /\ invoked' = Append(invoked, "load_config")
    /\ pc' = IF config'.is_none \/ config'.keys = {} THEN "exited" ELSE "parse_gedcom"
    /\ UNCHANGED <<config_file, gedcom_file, gedcom_data_reader, all_findings, crashed,
                   report, findings, origin, indi_idx, fam_idx>>
    /\ UNCHANGED <<date_vars, place_vars, finding_vars>>

\* main lines 46-53
ParseGedcom ==
    /\ pc = "parse_gedcom"
    /\ gedcom_data_reader' = parse_gedcom(gedcom_file)
    /\ invoked' = Append(invoked, "parse_gedcom")
    /\ pc' = IF gedcom_data_reader'.is_none THEN "exited" ELSE "call_validate"
    /\ all_findings' = <<>>
    /\ UNCHANGED <<config_file, gedcom_file, config, crashed, report, findings, origin,
                   indi_idx, fam_idx>>
    /\ UNCHANGED <<date_vars, place_vars, finding_vars>>

\* main line 59 and validate_formats lines 115-119
CallValidateFormats ==
    /\ pc = "call_validate"
    /\ findings' = <<>>
    /\ origin' = <<>>
    /\ indi_idx' = 0
    /\ fam_idx' = 0
    /\ pc' = loop_pc(gedcom_data_reader, 0, 0)
    /\ invoked' = Append(invoked, "validate_formats")
    /\ UNCHANGED <<config_file, gedcom_file, config, gedcom_data_reader, all_findings,
                   crashed, report>>
    /\ UNCHANGED <<date_vars, place_vars, finding_vars>>

\* the checks of one record with an exception that main does not catch
Checked_uncaught(r, n, m) ==
    /\ findings' = findings \o [k \in 1..Len(r.items) |-> r.items[k].f]
    /\ origin' = origin \o [k \in 1..Len(r.items) |-> r.items[k].o]
    /\ crashed' = r.raised
    /\ indi_idx' = IF r.raised THEN indi_idx ELSE n
    /\ fam_idx' = IF r.raised THEN fam_idx ELSE m
    /\ pc' = IF r.raised THEN "exited" ELSE loop_pc(gedcom_data_reader, n, m)

\* the effect of the checks of one record: the findings made are appended; an
\* exception leaves validate_formats and is caught in main (lines 65-67)
Checked(r, n, m) ==
    /\ findings' = findings \o [k \in 1..Len(r.items) |-> r.items[k].f]
    /\ origin' = origin \o [k \in 1..Len(r.items) |-> r.items[k].o]
    /\ crashed' = r.raised
    /\ indi_idx' = IF r.raised THEN indi_idx ELSE n
    /\ fam_idx' = IF r.raised THEN fam_idx ELSE m
    /\ pc' = IF r.raised THEN "report" ELSE loop_pc(gedcom_data_reader, n, m)

\* validate_formats lines 121-170, for the next individual
ValidateIndi ==
    /\ pc = "indi_loop"
    /\ Checked(indi_check(gedcom_data_reader.indis[indi_idx + 1], indi_idx + 1, config),
               indi_idx + 1, fam_idx)
    /\ UNCHANGED <<config_file, gedcom_file, config, gedcom_data_reader, all_findings, report,
                   invoked>>
    /\ UNCHANGED <<date_vars, place_vars, finding_vars>>

\* validate_formats lines 172-198, for the next family
ValidateFam ==
    /\ pc = "fam_loop"
    /\ Checked(fam_check(gedcom_data_reader.fams[fam_idx + 1], fam_idx + 1, config),
               indi_idx, fam_idx + 1)
    /\ UNCHANGED <<config_file, gedcom_file, config, gedcom_data_reader, all_findings, report,
                   invoked>>
    /\ UNCHANGED <<date_vars, place_vars, finding_vars>>

\* validate_formats line 199 and main lines 59-64
ReturnFindings ==
    /\ pc = "return"
    /\ all_findings' = all_findings \o findings
    /\ pc' = "report"
    /\ UNCHANGED <<config_file, gedcom_file, config, gedcom_data_reader, crashed, report,
                   findings, origin, indi_idx, fam_idx, invoked>>
    /\ UNCHANGED <<date_vars, place_vars, finding_vars>>

\* main lines 82-96
GenerateReport ==
    /\ pc = "report"
    /\ report' = generate_report(all_findings)
    /\ invoked' = Append(invoked, "generate_report")
    /\ pc' = "finished"
    /\ UNCHANGED <<config_file, gedcom_file, config, gedcom_data_reader, all_findings,
                   crashed, findings, origin, indi_idx, fam_idx>>
    /\ UNCHANGED <<date_vars, place_vars, finding_vars>>

----------------------------------------------------------------------------
(* Calls of _validate_date_value on bounded inputs *)

MaxAtoms == 4

\* the format patterns of the standalone configuration (line 221), a pattern
\* with literal text, one with an unknown directive and one that repeats a
\* directive
F_Y == <<"%","Y">>
F_dbY == <<"%","d"," ","%","b"," ","%","Y">>
F_bY == <<"%","b"," ","%","Y">>
F_AND_Y == <<"A","N","D"," ","%","Y">>
F_Q == <<"%","Q">>
F_YY == <<"%","Y"," ","%","Y">>

FormatLists ==
    { <<>>, <<F_Y>>, <<F_dbY, F_bY, F_Y>>, <<F_Q, F_Y, F_AND_Y>>, <<F_Y, F_YY>> }

DateAtoms ==
    { BET_, _AND_, ABT_, <<"A","N","D"," ">>, <<"1","9","0","0">>, <<"X">>, <<" ">> }

RECURSIVE Concats(_, _)
Concats(atoms, n) ==
    IF n = 0 THEN { <<>> }
    ELSE LET shorter == Concats(atoms, n - 1) IN
         shorter \cup { a \o t : a \in atoms, t \in shorter }

\* whole date values of the standalone test data (lines 234-254) and of the
\* calendar's edges
DateSamples ==
    { <<"1"," ","J","A","N"," ","1","9","0","0">>,
      <<"3","2"," ","M","A","R"," ","2","0","0","0">>,
      <<"2","9"," ","F","E","B"," ","1","9","0","0">>,
      <<"2","9"," ","f","e","b"," ","2","0","0","0">>,
      <<"J","a","n"," ","1","9","0","0">>,
      <<"B","E","T"," ","1"," ","M","A","R"," ","1","9","9","0"," ","A","N","D"," ","5"," ","M","A","R"," ","1","9","9","0">>,
      <<"B","E","T"," ","1"," ","J","A","N"," ","2","0","0","0"," ","A","N","D"," ","U","N","K","N","O","W","N">>,
      <<"A","B","T"," ","1","9","5","0">>,
      <<"a","b","t"," ","1","9","5","0">>,
      <<"A","B","T"," ","B","E","F"," ","1","9","0","0">>,
      <<"t","o"," ","1","9","0","0">>,
      <<"F","R","O","M"," ","1","9","0","0"," ","T","O"," ","1","9","0","1">>,
      <<"b","e","t"," ","1","9","0","0"," ","a","n","d"," ","1","9","0","1">>,
      <<"B","e","t"," ","1","9","0","0"," ","A","n","d"," ","X">>,
      <<"B","E","T"," ","A","B","T"," ","1","9","0","0"," ","A","N","D"," ","1","9","0","1">>,
      <<"B","E","T"," ","1","9","0","0"," ","A","N","D"," ","B","E","F"," ","1","9","0","1">>,
      <<"B","E","T"," ","1","9","0","0"," ","A","N","D"," ","1","9","0","1"," ","A","N","D"," ","1","9","0","2">>,
      <<"B","E","T"," ","1","9","0","0"," ","A","N","D"," ","A","N","D"," ","1","9","0","1">>,
      <<"B","E","T"," ","1","9","0","0","A","N","D"," ","1","9","0","1">>,
      <<"B","E","T","W","E","E","N"," ","1","9","0","0"," ","A","N","D"," ","1","9","0","1">> }

DateTexts == Concats(DateAtoms, MaxAtoms) \cup DateSamples

InitDate ==
    /\ date_str \in DateTexts
    /\ preferred_formats \in FormatLists
    /\ date_pc = "call"
    /\ date_ret = "none"
    /\ match_groups = <<>>
    /\ cleaned_date_str = <<>>
    /\ place_str = <<>>
    /\ expected_structures = <<>>
    /\ place_pc = "idle"
    /\ place_ret = "none"
    /\ MainIdle
    /\ FindingIdle

\* _validate_date_value(date_str, preferred_formats), with the groups the regular
\* expression extracted and the text handed to the final parse
ValidateDate ==
    /\ date_pc = "call"
    /\ date_pc' = "returned"
    /\ date_ret' = validate_date_value(date_str, preferred_formats)
    /\ match_groups' = IF Len(date_str) > 0 /\ is_range(date_str)
                       THEN re_match_groups(date_str) ELSE <<>>
    /\ cleaned_date_str' = IF Len(date_str) > 0 /\ ~is_range(date_str)
                           THEN cleaned(date_str) ELSE date_str
    /\ UNCHANGED <<date_str, preferred_formats>>
    /\ UNCHANGED place_vars
    /\ UNCHANGED main_vars
    /\ UNCHANGED finding_vars

NextDate == ValidateDate

SpecDate == InitDate /\ [][NextDate]_vars

----------------------------------------------------------------------------
(* Calls of _validate_place_structure on bounded inputs *)

MaxPlaceAtoms == 4
MaxStructs == 2

PlaceAtoms == { <<"A">>, <<",">>, <<" ">> }

PlaceTexts == Concats(PlaceAtoms, MaxPlaceAtoms)

\* the templates of the standalone configuration (line 222), and templates
\* with empty segments
P_CSC == <<"C","i","t","y",","," ","S","t","a","t","e",","," ","C","o","u","n","t","r","y">>
P_CC == <<"C","i","t","y",","," ","C","o","u","n","t","r","y">>
P_C == <<"C","o","u","n","t","r","y">>

Templates == { P_CSC, P_CC, P_C, <<>>, <<",">>, <<"A",",",",">> }

RECURSIVE SeqsUpTo(_, _)
SeqsUpTo(S, n) ==
    IF n = 0 THEN { <<>> }
    ELSE LET shorter == SeqsUpTo(S, n - 1) IN
         shorter \cup { <<x>> \o t : x \in S, t \in shorter }

InitPlace ==
    /\ place_str \in PlaceTexts
    /\ expected_structures \in SeqsUpTo(Templates, MaxStructs)
    /\ place_pc = "call"
    /\ place_ret = "none"
    /\ date_str = <<>>
    /\ preferred_formats = <<>>
    /\ date_pc = "idle"
    /\ date_ret = "none"
    /\ match_groups = <<>>
    /\ cleaned_date_str = <<>>
    /\ MainIdle
    /\ FindingIdle

\* _validate_place_structure(place_str, expected_structures)
ValidatePlace ==
    /\ place_pc = "call"
    /\ place_pc' = "returned"
    /\ place_ret' = validate_place_structure(place_str, expected_structures)
    /\ UNCHANGED <<place_str, expected_structures>>
    /\ UNCHANGED date_vars
    /\ UNCHANGED main_vars
    /\ UNCHANGED finding_vars

NextPlace == ValidatePlace

SpecPlace == InitPlace /\ [][NextPlace]_vars

----------------------------------------------------------------------------
(* Calls of _create_finding on the arguments it can be given *)

\* the values of a mandatory argument: a text or the empty text
IssueTypes == { "Format Error", "" }
RecordTypes == { "Individual", "Event (Family)", "" }
XrefIds == { "@I1@", "UNKNOWN_INDI" }
TagPaths == { <<"INDI", ":", "@I1@", "/", "NAME">>, <<>> }
ProblematicValues == { <<"A">>, <<>> }
Messages == { <<"Name is missing or appears to be empty.">>, <<>> }

\* the values of an optional argument: not passed, the empty text, a text
OptionalTexts == { None, Some(<<>>), Some(<<"preferred_date_formats">>) }

InitFinding ==
    /\ finding_args \in [issue_type : IssueTypes, record_type : RecordTypes,
                         element_xref_id : XrefIds, element_tag_path : TagPaths,
                         problematic_value : ProblematicValues, message : Messages,
                         rule_violated : OptionalTexts, suggestion : OptionalTexts]
    /\ finding_pc = "call"
    /\ finding_ret = <<>>
    /\ date_str = <<>>
    /\ preferred_formats = <<>>
    /\ date_pc = "idle"
    /\ date_ret = "none"
    /\ match_groups = <<>>
    /\ cleaned_date_str = <<>>
    /\ place_str = <<>>
    /\ expected_structures = <<>>
    /\ place_pc = "idle"
    /\ place_ret = "none"
    /\ MainIdle

\* _create_finding(issue_type, ..., message, rule_violated, suggestion)
CreateFinding ==
    /\ finding_pc = "call"
    /\ finding_pc' = "returned"
    /\ finding_ret' = create_finding(finding_args.issue_type, finding_args.record_type,
                                     finding_args.element_xref_id,
                                     finding_args.element_tag_path,
                                     finding_args.problematic_value, finding_args.message,
                                     finding_args.rule_violated, finding_args.suggestion)
    /\ UNCHANGED finding_args
    /\ UNCHANGED <<date_vars, place_vars>>
    /\ UNCHANGED main_vars

NextFinding == CreateFinding

SpecFinding == InitFinding /\ [][NextFinding]_vars

----------------------------------------------------------------------------
(* Runs of main on bounded inputs *)

MaxIndi == 2
MaxFam == 1
MaxNameAtoms == 4

\* an event with its DATE and PLAC children; NoChild is a missing child
NoChild == [has |-> FALSE, value |-> <<>>]
Child(v) == [has |-> TRUE, value |-> v]
Event(tag, d, pl) ==
    [tag |-> tag, has_date |-> d.has, date |-> d.value, has_place |-> pl.has, place |-> pl.value]

\* a NAME child with the surname the reader extracted from it
NoName == [has |-> FALSE, value |-> <<>>, surname |-> <<>>]
Name(v, sur) == [has |-> TRUE, value |-> v, surname |-> sur]
Indi(xref, n, events) ==
    [xref |-> xref, has_name |-> n.has, name |-> n.value, surname |-> n.surname, events |-> events]
Fam(xref, events) == [xref |-> xref, events |-> events]

\* a dict from its optional entries
Entry(key, opt) == IF opt = None THEN [x \in {} |-> x] ELSE key :> opt[1]
Dict(vals) == [keys |-> DOMAIN vals, vals |-> vals]
Rules(opt) == Dict(Entry("enforce_surname_slashes", opt))
Config(fmts, structs, rules) ==
    Dict(Entry("preferred_date_formats", fmts)
         @@ Entry("expected_place_format_structures", structs)
         @@ Entry("name_validation_rules", rules))

D_1900 == <<"1","9","0","0">>
D_X == <<"3","2"," ","M","A","R"," ","2","0","0","0">>
D_ABT == <<"A","B","T"," ","1","9","5","0">>
D_RANGE_BAD == <<"B","E","T"," ","1"," ","J","A","N"," ","2","0","0","0"," ","A","N","D"," ","U","N","K","N","O","W","N">>
D_BLANK == <<" ">>
PL_1 == <<"A">>
PL_2 == <<"A", ",", " ", "A">>
N_DOE == <<"J","o","h","n"," ","/","D","o","e","/">>
N_SMITH == <<"J","a","n","e"," ","S","m","i","t","h">>
N_SLASHES == <<"N","a","m","e"," ","/"," ","/">>

\* individuals after the standalone test data (lines 231-254): checked and
\* unchecked tags, several occurrences of a tag, children out of the order
\* of the tag list, a missing identifier, a missing NAME
Individuals ==
    { Indi("@I1@", Name(N_DOE, <<"D","o","e">>),
           << Event("BIRT", Child(D_1900), Child(PL_2)) >>),
      Indi("@I2@", Name(N_SMITH, <<>>),
           << Event("DEAT", Child(D_X), Child(PL_1)),
              Event("BIRT", Child(D_RANGE_BAD), Child(PL_2)) >>),
      Indi("", NoName,
           << Event("EVEN", Child(D_X), NoChild),
              Event("BIRT", Child(D_X), NoChild),
              Event("RESI", Child(D_X), Child(PL_1)),
              Event("BIRT", Child(D_ABT), Child(PL_1)) >>),
      Indi("@I4@", Name(N_SLASHES, <<>>),
           << Event("BURI", Child(D_BLANK), Child(<<>>)),
              Event("CHR", NoChild, Child(PL_1)) >>),
      Indi("@I5@", NoName, <<>>) }

Families ==
    { Fam("@F1@", << Event("MARR", Child(D_X), Child(PL_1)) >>),
      Fam("", << Event("EVEN", Child(D_1900), Child(PL_2)),
                 Event("DIV", Child(D_X), NoChild),
                 Event("MARR", NoChild, Child(PL_1)),
                 Event("MARR", Child(D_X), Child(PL_1)) >>),
      Fam("@F3@", <<>>) }

GedcomFiles ==
    { [status |-> "missing", indis |-> <<>>, fams |-> <<>>] }
    \cup { [status |-> "ok", indis |-> is, fams |-> fs] :
             is \in SeqsUpTo(Individuals, MaxIndi), fs \in SeqsUpTo(Families, MaxFam) }

FormatOptions == { None, Some(<<>>), Some(<<F_Y>>), Some(<<F_Y, F_YY>>) }
StructOptions == { None, Some(<<>>), Some(<<P_CC>>) }
RulesOptions == { None, Some(Rules(None)), Some(Rules(Some(TRUE))), Some(Rules(Some(FALSE))) }

ConfigFiles ==
    { [status |-> "missing", content |-> EmptyDict],
      [status |-> "invalid", content |-> EmptyDict] }
    \cup { [status |-> "ok", content |-> Config(f, st, r)] :
             f \in FormatOptions, st \in StructOptions, r \in {None, Some(Rules(Some(FALSE)))} }

\* the names: every text of up to MaxNameAtoms atoms, with and without an
\* extracted surname
NameAtoms == { <<"A">>, <<"/">>, <<" ">> }
NamedIndividuals ==
    { Indi("@I1@", Name(v, sur), <<>>) :
        v \in Concats(NameAtoms, MaxNameAtoms), sur \in { <<>>, <<"B">> } }

NameGedcomFiles ==
    { [status |-> "ok", indis |-> <<ind>>, fams |-> << Fam("@F3@", <<>>) >>] :
        ind \in NamedIndividuals }
NameConfigFiles ==
    { [status |-> "ok", content |-> Config(Some(<<F_Y>>), Some(<<P_CC>>), r)] :
        r \in RulesOptions }

Init ==
    /\ \/ config_file \in ConfigFiles /\ gedcom_file \in GedcomFiles
       \/ config_file \in NameConfigFiles /\ gedcom_file \in NameGedcomFiles
    /\ pc = "load_config"
    /\ config = NoConfig
    /\ gedcom_data_reader = NoReader
    /\ all_findings = <<>>
    /\ crashed = FALSE
    /\ report = NoReport
    /\ findings = <<>>
    /\ origin = <<>>
    /\ indi_idx = 0
    /\ fam_idx = 0
    /\ invoked = <<>>
    /\ FindingIdle
    /\ date_str = <<>>
    /\ preferred_formats = <<>>
    /\ date_pc = "idle"
    /\ date_ret = "none"
    /\ match_groups = <<>>
    /\ cleaned_date_str = <<>>
    /\ place_str = <<>>
    /\ expected_structures = <<>>
    /\ place_pc = "idle"
    /\ place_ret = "none"

Next ==
    \/ LoadConfig
    \/ ParseGedcom
    \/ CallValidateFormats
    \/ ValidateIndi
    \/ ValidateFam
    \/ ReturnFindings
    \/ GenerateReport

Spec == Init /\ [][Next]_vars

----------------------------------------------------------------------------
(* Calls of generate_report on bounded finding lists *)

MaxFindings == 3

\* findings of several issue types, two of one type, and one without the
\* issue_type key
ReportFindings ==
    { create_finding("Format Error", "Individual", "@I1@",
                     <<"INDI", ":", "@I1@", "/", "NAME">>, <<>>,
                     <<"Name is missing or appears to be empty.">>, None, None),
      create_finding("Format Error", "Event (Family)", "@F1@",
                     <<"FAM", ":", "@F1@", "/", "MARR", "/", "DATE">>, <<"X">>,
                     <<"Date format for ", "MARR", " ('", <<"X">>, "') invalid.">>,
                     Some(<<"preferred_date_formats">>), None),
      create_finding("Missing Source", "Individual", "@I1@",
                     <<"INDI", ":", "@I1@", "/", "BIRT">>, <<>>,
                     <<"No source cited.">>, None, None),
      create_finding("Unknown Issue Type", "Individual", "@I2@",
                     <<"INDI", ":", "@I2@">>, <<>>, <<"Unclassified.">>, None, None),
      [record_type |-> "Individual", message |-> <<"No issue type.">>] }

\* main at its call of generate_report (line 90), with the findings the
\* analysis modules have gathered
InitReport ==
    /\ all_findings \in SeqsUpTo(ReportFindings, MaxFindings)
    /\ pc = "report"
    /\ invoked = <<"load_config", "parse_gedcom", "validate_formats">>
    /\ report = NoReport
    /\ config_file = [status |-> "ok", content |-> Config(None, None, Some(Rules(None)))]
    /\ gedcom_file = [status |-> "ok", indis |-> <<>>, fams |-> <<>>]
    /\ config = load_config(config_file)
    /\ gedcom_data_reader = parse_gedcom(gedcom_file)
    /\ crashed = FALSE
    /\ findings = <<>>
    /\ origin = <<>>
    /\ indi_idx = 0
    /\ fam_idx = 0
    /\ FindingIdle
    /\ date_str = <<>>
    /\ preferred_formats = <<>>
    /\ date_pc = "idle"
    /\ date_ret = "none"
    /\ match_groups = <<>>
    /\ cleaned_date_str = <<>>
    /\ place_str = <<>>
    /\ expected_structures = <<>>
    /\ place_pc = "idle"
    /\ place_ret = "none"

NextReport == GenerateReport

SpecReport == InitReport /\ [][NextReport]_vars

----------------------------------------------------------------------------
(* Properties of _validate_date_value *)

QualifierPrefixes == { ABT_, CAL_, EST_, INT_, BEF_, AFT_, FROM_, TO_ }

\* the text begins with "BET " and contains " AND ", whatever the case
KeywordAt(t, kw, at) ==
    /\ at + Len(kw) - 1 <= Len(t)
    /\ \A k \in 1..Len(kw) : UpperChar(t[at + k - 1]) = kw[k]

IsRangeText(t) ==
    /\ KeywordAt(t, BET_, 1)
    /\ \E at \in 1..Len(t) : KeywordAt(t, _AND_, at)

\* the positions of the occurrences of " AND " in the text, whatever the case
AndPositions(t) ==
    {at \in 1..Len(t) : KeywordAt(t, _AND_, at)}

\* the two sides of a range split at position at, each trimmed
SplitAt(t, at) ==
    << Strip(Slice(t, Len(BET_) + 1, at - 1)),
       Strip(Slice(t, at + Len(_AND_), Len(t))) >>

FirstAnd(t) ==
    LET after == {at \in AndPositions(t) : at > Len(BET_)} IN
    CHOOSE at \in after : \A o \in after : at <= o

LastAnd(t) == CHOOSE at \in AndPositions(t) : \A o \in AndPositions(t) : at >= o

DateReturned == date_pc = "returned" /\ Len(date_str) > 0

\* C1: for a non-empty range text the call returns (it never raises), and it
\* returns true exactly when the expression matched and both extracted sides,
\* as they stand, are parsable against the formats; a range whose structure
\* does not match is invalid.
C1_RangeValidity ==
    (DateReturned /\ IsRangeText(date_str)) =>
        /\ date_ret \in {"True", "False"}
        /\ date_ret = "True" <=>
              /\ match_groups # <<>>
              /\ is_date_parsable(match_groups[1], preferred_formats) = "True"
              /\ is_date_parsable(match_groups[2], preferred_formats) = "True"

\* a range one of whose sides carries a qualifier prefix is invalid although
\* the side without its prefix, and the other side, parse
C1_Witness ==
    /\ DateReturned /\ IsRangeText(date_str)
    /\ match_groups # <<>>
    /\ \E q \in QualifierPrefixes :
          /\ KeywordAt(match_groups[1], q, 1)
          /\ is_date_parsable(Slice(match_groups[1], Len(q) + 1, Len(match_groups[1])),
                              preferred_formats) = "True"
    /\ is_date_parsable(match_groups[2], preferred_formats) = "True"
    /\ date_ret = "False"

\* C2: for a non-empty text that is not a range, the text handed to the parse
\* is the text without its one leading qualifier prefix (the whole text when
\* it has none), and the outcome of the call is the outcome of parsing it.
C2_PrefixStripping ==
    (DateReturned /\ ~IsRangeText(date_str)) =>
        LET hits == {q \in QualifierPrefixes : KeywordAt(date_str, q, 1)}
            rest == IF hits = {} THEN date_str
                    ELSE LET q == CHOOSE x \in hits : TRUE IN
                         Slice(date_str, Len(q) + 1, Len(date_str))
        IN  /\ Cardinality(hits) <= 1
            /\ cleaned_date_str = rest
            /\ date_ret = is_date_parsable(rest, preferred_formats)

\* a doubly prefixed date is invalid although it parses once both prefixes
\* are removed
C2_Witness ==
    /\ DateReturned /\ ~IsRangeText(date_str)
    /\ \E q, r \in QualifierPrefixes :
          /\ KeywordAt(date_str, q \o r, 1)
          /\ is_date_parsable(Slice(date_str, Len(q) + Len(r) + 1, Len(date_str)),
                              preferred_formats) = "True"
    /\ date_ret = "False"

MultiAnd == DateReturned /\ IsRangeText(date_str) /\ Cardinality(AndPositions(date_str)) > 1

\* C3 as claimed: with several " AND ", the sides are split at the first one
C3_Original ==
    MultiAnd => match_groups = SplitAt(date_str, FirstAnd(date_str))

\* C3: with several " AND ", the sides tested are the text between "BET " and
\* the last " AND ", and the text after the last " AND ", each trimmed
C3_SplitAtLastAnd ==
    MultiAnd => match_groups = SplitAt(date_str, LastAnd(date_str))

\* a range that is invalid as the code splits it and would be valid split at
\* the first " AND "
C3_Witness ==
    /\ MultiAnd
    /\ match_groups # SplitAt(date_str, FirstAnd(date_str))
    /\ is_date_parsable(SplitAt(date_str, FirstAnd(date_str))[1], preferred_formats) = "True"
    /\ is_date_parsable(SplitAt(date_str, FirstAnd(date_str))[2], preferred_formats) = "True"
    /\ date_ret = "False"

----------------------------------------------------------------------------
(* Properties of _validate_place_structure *)

\* the number of comma-separated segments of a text
Segments(t) == Cardinality({k \in 1..Len(t) : t[k] = ","}) + 1

\* C4: a non-empty place is valid exactly when its number of comma-separated
\* segments is that of at least one template; what the segments hold plays
\* no part.
C4_PlaceSegmentCount ==
    (place_pc = "returned" /\ Len(place_str) > 0) =>
        (place_ret = "True" <=>
            \E k \in 1..Len(expected_structures) :
                Segments(place_str) = Segments(expected_structures[k]))

\* a place with an empty segment (a trailing or doubled comma) found valid
C4_Witness ==
    /\ place_pc = "returned"
    /\ \E k \in 1..Len(place_str) :
          /\ place_str[k] = ","
          /\ (k = Len(place_str) \/ place_str[k + 1] = ",")
    /\ place_ret = "True"

----------------------------------------------------------------------------
(* Properties of validate_formats *)

\* validate_formats has been entered
Validating == pc \in {"indi_loop", "fam_loop", "return", "report", "finished"}

\* validate_formats is over: it returned, or an exception left it
ValidationOver == pc \in {"report", "finished"}

\* surname enforcement as the configuration states it: on unless switched off
Enforcement ==
    IF "name_validation_rules" \notin config.keys THEN TRUE
    ELSE IF "enforce_surname_slashes" \notin config.vals["name_validation_rules"].keys THEN TRUE
    ELSE config.vals["name_validation_rules"].vals["enforce_surname_slashes"]

Slashes(t) == Cardinality({k \in 1..Len(t) : t[k] = "/"})

Degenerate(t) == Strip(t) \in { <<>>, <<"/">>, <<"/", "/">> }

\* the positions of the name findings of individual number rec
NameFindings(rec) ==
    {k \in 1..Len(origin) :
        origin[k].kind = "INDI" /\ origin[k].rec = rec /\ origin[k].field = "NAME"}

MissingOrEmpty == <<"Name is missing or appears to be empty.">>
MissingDelimiters ==
    <<"Name does not appear to use standard GEDCOM surname slashes (e.g., First /Surname/).">>
MalformedSurname ==
    <<"Name contains slashes, but surname part might be empty or malformed (e.g., 'Name / /').">>

\* exactly one name finding for individual rec, with the message given
OneNameFinding(rec, message) ==
    /\ Cardinality(NameFindings(rec)) = 1
    /\ \A k \in NameFindings(rec) :
          /\ findings[k].message = message
          /\ findings[k].problematic_value = gedcom_data_reader.indis[rec].name

\* C5: for every checked individual with a NAME: a degenerate value (empty,
\* '/' or '//' once trimmed) gives exactly one "missing or empty" finding
\* whatever the enforcement setting; otherwise with enforcement on (also by
\* absence of the keys), no surname and no slash, exactly one "missing
\* delimiters" finding with a suggestion; with enforcement off a slash-free
\* name gives no finding.
C5_NameDelimiters ==
    Validating =>
        \A rec \in 1..indi_idx :
            LET indi == gedcom_data_reader.indis[rec] IN
            indi.has_name =>
                /\ Degenerate(indi.name) => OneNameFinding(rec, MissingOrEmpty)
                /\ (~Degenerate(indi.name) /\ Enforcement /\ indi.surname = <<>>
                        /\ Slashes(indi.name) = 0) =>
                      /\ OneNameFinding(rec, MissingDelimiters)
                      /\ \A k \in NameFindings(rec) : "suggestion" \in DOMAIN findings[k]
                /\ (~Degenerate(indi.name) /\ ~Enforcement /\ Slashes(indi.name) = 0) =>
                      NameFindings(rec) = {}

\* a slash-free name without a surname reported under a configuration that
\* does not mention the enforcement rule
C5_Witness ==
    /\ Validating
    /\ "name_validation_rules" \in config.keys
    /\ "enforce_surname_slashes" \notin config.vals["name_validation_rules"].keys
    /\ \E rec \in 1..indi_idx :
          /\ gedcom_data_reader.indis[rec].has_name
          /\ ~Degenerate(gedcom_data_reader.indis[rec].name)
          /\ gedcom_data_reader.indis[rec].surname = <<>>
          /\ Slashes(gedcom_data_reader.indis[rec].name) = 0
          /\ OneNameFinding(rec, MissingDelimiters)

\* the names C6 is about: not degenerate, no surname extracted, two slashes or more
Malformed(indi) ==
    /\ indi.has_name
    /\ ~Degenerate(indi.name)
    /\ indi.surname = <<>>
    /\ Slashes(indi.name) >= 2

\* the cases of C6 in which no name finding is made: one slash and no surname,
\* or a surname extracted
C6_NoFindingCases ==
    \A rec \in 1..indi_idx :
        LET indi == gedcom_data_reader.indis[rec] IN
        (indi.has_name /\ ~Degenerate(indi.name)) =>
            /\ (indi.surname = <<>> /\ Slashes(indi.name) = 1) => NameFindings(rec) = {}
            /\ indi.surname # <<>> => NameFindings(rec) = {}

\* C6 as claimed: a malformed name gives exactly one "surname segment empty or
\* malformed" finding for every value of enforce_surname_slashes
C6_Original ==
    Validating =>
        /\ \A rec \in 1..indi_idx :
              Malformed(gedcom_data_reader.indis[rec]) =>
                  OneNameFinding(rec, MalformedSurname)
        /\ C6_NoFindingCases

\* C6: a malformed name gives exactly one "surname segment empty or malformed"
\* finding when enforcement is on and no name finding when it is off; a name
\* with one slash and no surname, and a name with an extracted surname, give
\* no name finding.
C6_MalformedUnderEnforcement ==
    Validating =>
        /\ \A rec \in 1..indi_idx :
              Malformed(gedcom_data_reader.indis[rec]) =>
                  IF Enforcement THEN OneNameFinding(rec, MalformedSurname)
                  ELSE NameFindings(rec) = {}
        /\ C6_NoFindingCases

\* a malformed name passing unreported with enforcement switched off
C6_Witness ==
    /\ Validating
    /\ ~Enforcement
    /\ \E rec \in 1..indi_idx :
          /\ Malformed(gedcom_data_reader.indis[rec])
          /\ NameFindings(rec) = {}

\* the findings of a sequence of checks, without their origins
FindingsOf(r) == [k \in 1..Len(r.items) |-> r.items[k].f]

\* every element of the sequence part occurs in the sequence whole
ContainedIn(part, whole) ==
    \A k \in 1..Len(part) : \E j \in 1..Len(whole) : whole[j] = part[k]

\* C7: when an exception is raised while a record is checked, the findings
\* handed on still contain the findings of every other record, i.e. of every
\* record whose own checks raise nothing.
C7_FaultIsolation ==
    (ValidationOver /\ crashed) =>
        /\ \A rec \in 1..Len(gedcom_data_reader.indis) :
              LET r == indi_check(gedcom_data_reader.indis[rec], rec, config) IN
              ~r.raised => ContainedIn(FindingsOf(r), all_findings)
        /\ \A rec \in 1..Len(gedcom_data_reader.fams) :
              LET r == fam_check(gedcom_data_reader.fams[rec], rec, config) IN
              ~r.raised => ContainedIn(FindingsOf(r), all_findings)

\* the events the two loops visit, as (kind, record, position)
VisitedEvents ==
    { [kind |-> "INDI", rec |-> x[1], ev |-> x[2]] :
        x \in { y \in (1..Len(gedcom_data_reader.indis)) \X (1..10) :
                  /\ y[2] <= Len(gedcom_data_reader.indis[y[1]].events)
                  /\ \E t \in 1..Len(event_tags_to_check) :
                        gedcom_data_reader.indis[y[1]].events[y[2]].tag = event_tags_to_check[t] } }
    \cup
    { [kind |-> "FAM", rec |-> x[1], ev |-> x[2]] :
        x \in { y \in (1..Len(gedcom_data_reader.fams)) \X (1..10) :
                  /\ y[2] <= Len(gedcom_data_reader.fams[y[1]].events)
                  /\ \E t \in 1..Len(family_event_tags_to_check) :
                        gedcom_data_reader.fams[y[1]].events[y[2]].tag = family_event_tags_to_check[t] } }

RecordOf(e) ==
    IF e.kind = "INDI" THEN gedcom_data_reader.indis[e.rec] ELSE gedcom_data_reader.fams[e.rec]

EventOf(e) == RecordOf(e).events[e.ev]

\* the trimmed value of a field of an event, empty when the child is missing
FieldValue(e, field) ==
    IF field = "DATE"
    THEN (IF EventOf(e).has_date THEN Strip(EventOf(e).date) ELSE <<>>)
    ELSE (IF EventOf(e).has_place THEN Strip(EventOf(e).place) ELSE <<>>)

\* the positions of the findings about a field (the last segment of their path)
AboutField(fs, field) ==
    {k \in 1..Len(fs) : fs[k].element_tag_path[Len(fs[k].element_tag_path)] = field}

KeyAbsentOrEmpty(key) == key \notin config.keys \/ config.vals[key] = <<>>

\* C8: with preferred_date_formats (resp. expected_place_format_structures)
\* absent or empty, validate_formats completes normally and returns exactly
\* one finding for every non-empty event date (resp. event place).
C8_OptionalKeys ==
    ValidationOver =>
        /\ KeyAbsentOrEmpty("preferred_date_formats") =>
              /\ ~crashed
              /\ Cardinality(AboutField(all_findings, "DATE"))
                    = Cardinality({e \in VisitedEvents : FieldValue(e, "DATE") # <<>>})
        /\ KeyAbsentOrEmpty("expected_place_format_structures") =>
              /\ ~crashed
              /\ Cardinality(AboutField(all_findings, "PLAC"))
                    = Cardinality({e \in VisitedEvents : FieldValue(e, "PLAC") # <<>>})

\* the path of a finding about a field of an event
PathOf(e, field) ==
    << e.kind, ":",
       IF RecordOf(e).xref # "" THEN RecordOf(e).xref
       ELSE IF e.kind = "INDI" THEN "UNKNOWN_INDI" ELSE "UNKNOWN_FAM",
       "/", EventOf(e).tag, "/", field >>

\* the rank of a tag in the vocabulary of its kind of record
TagRank(kind, tag) ==
    LET tags == IF kind = "INDI" THEN event_tags_to_check ELSE family_event_tags_to_check
    IN  CHOOSE t \in 1..Len(tags) : tags[t] = tag

\* the place of a finding in the traversal, read from its path (kind of record,
\* NAME or event tag, field) and from where it was made (record, occurrence)
TraversalKey(f, o) ==
    LET path == f.element_tag_path
        name == Len(path) = 5
    IN  << IF path[1] = "INDI" THEN 0 ELSE 1,
           o.rec,
           IF name THEN 0 ELSE TagRank(path[1], path[5]),
           o.ev,
           IF name THEN 0 ELSE IF path[7] = "DATE" THEN 1 ELSE 2 >>

\* lexicographic order on keys of the same length
RECURSIVE Before(_, _, _)
Before(a, b, k) ==
    IF k > Len(a) THEN FALSE
    ELSE IF a[k] # b[k] THEN a[k] < b[k]
    ELSE Before(a, b, k + 1)

\* C9: the findings are in traversal order: individuals before families,
\* records in enumeration order, the name before the events, events by the
\* order of the tag vocabulary and then by occurrence, the date before the
\* place; and what validate_formats returns is that sequence.
C9_TraversalOrder ==
    /\ \A i, j \in 1..Len(findings) :
          i < j => Before(TraversalKey(findings[i], origin[i]),
                          TraversalKey(findings[j], origin[j]), 1)
    /\ (ValidationOver /\ ~crashed) => all_findings = findings

\* a completed run whose findings hold a name finding followed by event
\* findings, a later child reported before an earlier one, a date and a place
\* finding of one event, and a family finding after the individuals'
C9_Witness ==
    /\ pc = "finished" /\ ~crashed
    /\ \E i, j \in 1..Len(all_findings) :
          i < j /\ origin[i].kind = "INDI" /\ origin[j].kind = "FAM"
    /\ \E i, j \in 1..Len(all_findings) :
          i < j /\ origin[i].rec = origin[j].rec /\ origin[i].kind = origin[j].kind
                /\ origin[i].field = "NAME" /\ origin[j].field # "NAME"
    /\ \E i, j \in 1..Len(all_findings) :
          i < j /\ origin[i].rec = origin[j].rec /\ origin[i].kind = origin[j].kind
                /\ origin[i].ev > origin[j].ev
    /\ \E i \in 1..Len(all_findings) - 1 :
          /\ origin[i].rec = origin[i + 1].rec /\ origin[i].kind = origin[i + 1].kind
          /\ origin[i].ev = origin[i + 1].ev
          /\ origin[i].field = "DATE" /\ origin[i + 1].field = "PLAC"

\* the check of a field of an event fails: the value is not empty and the
\* validator returns false
Fails(e, field) ==
    /\ FieldValue(e, field) # <<>>
    /\ IF field = "DATE"
       THEN validate_date_value(FieldValue(e, "DATE"),
                                cfg_preferred_date_formats(config)) = "False"
       ELSE validate_place_structure(FieldValue(e, "PLAC"),
                                     cfg_expected_place_structures(config)) = "False"

\* the positions of the findings made for a field of an event
MadeFor(e, field) ==
    {k \in 1..Len(origin) :
        origin[k] = [kind |-> e.kind, rec |-> e.rec, ev |-> e.ev, field |-> field]}

\* C10: once validate_formats is over, every failing date or place check has
\* exactly one finding and every other check none, so that the date (resp.
\* place) findings are as many as the failing checks; each finding carries
\* the path KIND:xref/TAG/FIELD of its record and event, with the placeholder
\* for a missing identifier.
C10_OneFindingPerFailure ==
    ValidationOver =>
        \A field \in {"DATE", "PLAC"} :
            /\ \A e \in VisitedEvents :
                  /\ Cardinality(MadeFor(e, field)) = IF Fails(e, field) THEN 1 ELSE 0
                  /\ \A k \in MadeFor(e, field) :
                        findings[k].element_tag_path = PathOf(e, field)
            /\ Cardinality(AboutField(findings, field))
                  = Cardinality({e \in VisitedEvents : Fails(e, field)})

\* the positions of the findings made for a record (at any of its fields)
MadeForRecord(kind, rec) ==
    {k \in 1..Len(origin) : origin[k].kind = kind /\ origin[k].rec = rec}

\* C11: absence is never reported: no name finding is made for an individual
\* without a NAME, and no date (resp. place) finding for an event whose DATE
\* (resp. PLAC) is absent, empty or blank, whatever the configuration; and
\* both validators return true on the empty text, for every list of formats
\* and of templates.
C11_AbsenceNotReported ==
    /\ Validating =>
          /\ \A rec \in 1..Len(gedcom_data_reader.indis) :
                ~gedcom_data_reader.indis[rec].has_name => NameFindings(rec) = {}
          /\ \A e \in VisitedEvents : \A field \in {"DATE", "PLAC"} :
                FieldValue(e, field) = <<>> => MadeFor(e, field) = {}
    /\ \A fmts \in FormatLists : validate_date_value(<<>>, fmts) = "True"
    /\ \A structs \in SeqsUpTo(Templates, MaxStructs) :
          validate_place_structure(<<>>, structs) = "True"

\* a completed run, under a configuration without date formats, over an
\* individual without a NAME and an event with a blank DATE and an absent or
\* empty PLAC, none of them reported while another field of the tree is
C11_Witness ==
    /\ pc = "finished" /\ ~crashed
    /\ KeyAbsentOrEmpty("preferred_date_formats")
    /\ \E rec \in 1..Len(gedcom_data_reader.indis) :
          ~gedcom_data_reader.indis[rec].has_name /\ NameFindings(rec) = {}
    /\ \E e \in VisitedEvents :
          /\ EventOf(e).has_date /\ EventOf(e).date # <<>>
          /\ FieldValue(e, "DATE") = <<>> /\ FieldValue(e, "PLAC") = <<>>
          /\ MadeForRecord(e.kind, e.rec) # {}
          /\ MadeFor(e, "DATE") = {} /\ MadeFor(e, "PLAC") = {}

----------------------------------------------------------------------------
(* Properties of main *)

\* the calls of a run that goes through
FullRun == <<"load_config", "parse_gedcom", "validate_formats", "generate_report">>

IsPrefix(a, b) == Len(a) <= Len(b) /\ \A k \in 1..Len(a) : a[k] = b[k]

Called(name) == \E k \in 1..Len(invoked) : invoked[k] = name

\* the configuration file parses as a dict (with or without keys) and the
\* GEDCOM file can be read
BothLoadable == config_file.status = "ok" /\ gedcom_file.status = "ok"

RunOver == pc \in {"exited", "finished"}

\* C12: validate_formats and generate_report are called only when both the
\* configuration and the tree could be loaded; a run in which one of them
\* could not ends without either call; a run in which both could (a
\* configuration without keys included) calls validate_formats once and then
\* generate_report once.
C12_MainOrdering ==
    /\ IsPrefix(invoked, FullRun)
    /\ (Called("validate_formats") \/ Called("generate_report")) => BothLoadable
    /\ (RunOver /\ ~BothLoadable) =>
          pc = "exited" /\ ~Called("validate_formats") /\ ~Called("generate_report")
    /\ (RunOver /\ BothLoadable) => invoked = FullRun

----------------------------------------------------------------------------
(* Properties of _create_finding *)

MandatoryKeys ==
    {"issue_type", "record_type", "element_xref_id", "element_tag_path",
     "problematic_value", "message"}

\* the six mandatory fields hold the values passed, an optional key that is
\* present holds the value passed, and there is no other key
FindingAsPassed ==
    /\ MandatoryKeys \subseteq DOMAIN finding_ret
    /\ DOMAIN finding_ret \subseteq MandatoryKeys \cup {"rule_violated", "suggestion"}
    /\ \A key \in MandatoryKeys : finding_ret[key] = finding_args[key]
    /\ \A key \in {"rule_violated", "suggestion"} :
          key \in DOMAIN finding_ret =>
              finding_args[key] # None /\ finding_ret[key] = finding_args[key][1]

\* C13 as claimed: an optional key is in the finding exactly when a value was
\* passed for it
C13_Original ==
    finding_pc = "returned" =>
        /\ FindingAsPassed
        /\ \A key \in {"rule_violated", "suggestion"} :
              key \in DOMAIN finding_ret <=> finding_args[key] # None

\* C13: an optional key is in the finding exactly when a value other than the
\* empty text was passed for it; a key that is not, is absent and not null;
\* the six mandatory fields are always there with the values passed.
C13_KeysWhenNonEmpty ==
    finding_pc = "returned" =>
        /\ FindingAsPassed
        /\ \A key \in {"rule_violated", "suggestion"} :
              key \in DOMAIN finding_ret <=>
                  (finding_args[key] # None /\ finding_args[key][1] # <<>>)

\* a finding without the suggestion key although an (empty) suggestion was
\* passed, next to a rule_violated that was passed and is there
C13_Witness ==
    /\ finding_pc = "returned"
    /\ finding_args.suggestion = Some(<<>>)
    /\ "suggestion" \notin DOMAIN finding_ret
    /\ finding_args.rule_violated # None
    /\ "rule_violated" \in DOMAIN finding_ret
    /\ finding_args.message = <<>>
    /\ finding_ret.message = <<>>

----------------------------------------------------------------------------
(* Properties of generate_report *)

\* the issue type generate_report files a finding under (line 29)
TypeOf(f) == IF "issue_type" \in DOMAIN f THEN f.issue_type ELSE "Unknown Issue Type"

\* the number of findings of the type of fs[k] among fs[1..k]
RankIn(fs, k) == Cardinality({j \in 1..k : TypeOf(fs[j]) = TypeOf(fs[k])})

RECURSIVE SumCounts(_, _)
SumCounts(blocks, b) ==
    IF b > Len(blocks) THEN 0 ELSE Len(blocks[b].findings) + SumCounts(blocks, b + 1)

\* the report rp partitions the findings fs: the blocks have distinct types
\* and are not empty, the k-th finding is in the block of its type at the rank
\* it has among the findings of that type, each block holds as many findings
\* as fs has of its type, and the counts sum to the total reported
Partitions(rp, fs) ==
    /\ rp.written
    /\ rp.no_issues <=> fs = <<>>
    /\ rp.total = Len(fs)
    /\ \A b, c \in 1..Len(rp.blocks) :
          rp.blocks[b].issue_type = rp.blocks[c].issue_type => b = c
    /\ \A b \in 1..Len(rp.blocks) :
          /\ rp.blocks[b].findings # <<>>
          /\ Len(rp.blocks[b].findings)
                = Cardinality({k \in 1..Len(fs) : TypeOf(fs[k]) = rp.blocks[b].issue_type})
    /\ \A k \in 1..Len(fs) :
          \E b \in 1..Len(rp.blocks) :
              /\ rp.blocks[b].issue_type = TypeOf(fs[k])
              /\ RankIn(fs, k) <= Len(rp.blocks[b].findings)
              /\ rp.blocks[b].findings[RankIn(fs, k)] = fs[k]
    /\ SumCounts(rp.blocks, 1) = rp.total

\* C14: a call of generate_report leaves the finding sequence as it was and
\* renders a partition of it by issue_type: every finding once, in the block
\* of its type, in the order of the sequence, the counts summing to the total.
C14_ReportPartition ==
    [][(pc = "report" /\ pc' = "finished") =>
          /\ all_findings' = all_findings
          /\ Partitions(report', all_findings)]_vars

\* a report of two blocks, the first holding two findings between which the
\* sequence had a finding of the other type
C14_Witness ==
    /\ pc = "finished"
    /\ Len(all_findings) = 3
    /\ TypeOf(all_findings[1]) = TypeOf(all_findings[3])
    /\ TypeOf(all_findings[1]) # TypeOf(all_findings[2])
    /\ all_findings[1] # all_findings[3]
    /\ Len(report.blocks) = 2
    /\ report.blocks[1].findings = << all_findings[1], all_findings[3] >>
    /\ report.blocks[2].findings = << all_findings[2] >>

----------------------------------------------------------------------------
(* Properties of main when validate_formats raises *)

\* C15: when validate_formats raises, main goes on to generate_report with an
\* empty finding list: no finding made before the exception reaches the
\* report, which states that no issues were found.
C15_RaiseGivesEmptyReport ==
    crashed =>
        /\ pc \in {"report", "finished"}
        /\ all_findings = <<>>
        /\ pc = "report" => ~report.written /\ ENABLED GenerateReport
        /\ pc = "finished" =>
              /\ Called("generate_report")
              /\ report.written /\ report.no_issues
              /\ report.total = 0 /\ report.blocks = <<>>

\* a finished run in which findings were made for one record before the
\* checks of a later one raised, and whose report states no issues
C15_Witness ==
    /\ crashed /\ pc = "finished"
    /\ \E k \in 1..Len(origin) :
          origin[k].kind = "INDI" /\ origin[k].rec <= indi_idx
    /\ report.written /\ report.no_issues

====
